---- MODULE Spec2Model ----
(***************************************************************************)
(* A model of the bootcamp progress backend (src/main.py): the learners    *)
(* and assessments tables, the REST handlers that read and write them, and *)
(* the helpers _normalize_progress and _overall, which are pure functions  *)
(* of a stored progress document.                                          *)
(*                                                                         *)
(* Python values are tagged records, so that a stored progress document    *)
(* may hold what the code has to cope with (None, text, numbers, lists,    *)
(* dicts).  A Python str is a sequence of pieces: single characters for    *)
(* emails and numerals, lexemes for JSON text.                             *)
(***************************************************************************)
EXTENDS Integers, Sequences, FiniteSets, TLC

VARIABLES
    learners,      \* the learners table: id -> row
    assessments,   \* the assessments table, in insertion order (id = index)
    next_id,       \* the learners.id sequence
    response,      \* what the last finished request returned
    inflight       \* requests between two commits (SpecConc only)

vars == <<learners, assessments, next_id, response, inflight>>

----------------------------------------------------------------------------
(* Bounds of the model.                                                    *)

MaxLearners == 2
MaxAssessments == 2
MaxItems == 1
MaxInflight == 2

(* Program constants.                                                      *)

PASSING_SCORE == 7
NumWeeks == 7
MinWeek == 1
MinScore == 0

----------------------------------------------------------------------------
(* Python values.                                                          *)

PyNone == [t |-> "None"]
PyInt(n) == [t |-> "int", v |-> n]
PyStr(s) == [t |-> "str", v |-> s]
PyList(xs) == [t |-> "list", v |-> xs]
PyDict(f) == [t |-> "dict", v |-> f]
Raise(e) == [t |-> "raise", v |-> e]

IsRaise(x) == x.t = "raise"

\* dict.get(k, d)
Get(p, k, d) == IF k \in DOMAIN p.v THEN p.v[k] ELSE d

Digits == <<"0", "1", "2", "3", "4", "5", "6", "7", "8", "9">>

IsDigit(c) == \E i \in 1..10 : Digits[i] = c

DigitVal(c) == (CHOOSE i \in 1..10 : Digits[i] = c) - 1

RECURSIVE strip(_)
\* str.strip(): leading and trailing blanks removed
strip(s) ==
    IF s = <<>> THEN s
    ELSE IF Head(s) = " " THEN strip(Tail(s))
    ELSE IF s[Len(s)] = " " THEN strip(SubSeq(s, 1, Len(s) - 1))
    ELSE s

LowerChar(c) ==
    CASE c = "A" -> "a"
      [] c = "B" -> "b"
      [] OTHER -> c

\* str.lower()
lower(s) == [i \in 1..Len(s) |-> LowerChar(s[i])]

RECURSIVE DecimalValue(_)
DecimalValue(s) ==
    IF s = <<>> THEN 0
    ELSE 10 * DecimalValue(SubSeq(s, 1, Len(s) - 1)) + DigitVal(s[Len(s)])

\* a numeral's value: all digits, or ValueError
NumeralValue(body, negative) ==
    IF body # <<>> /\ \A i \in 1..Len(body) : IsDigit(body[i])
    THEN PyInt(IF negative THEN 0 - DecimalValue(body) ELSE DecimalValue(body))
    ELSE Raise("ValueError")

\* a numeral with its optional sign
SignedNumeralValue(s) ==
    IF s # <<>> /\ Head(s) = "-" THEN NumeralValue(Tail(s), TRUE) ELSE NumeralValue(s, FALSE)

\* int(x): an int is itself, a numeral (blanks around it, an optional sign)
\* is its value, anything else raises.
int(x) ==
    CASE x.t = "int" -> x
      [] x.t = "str" -> SignedNumeralValue(strip(x.v))
      [] OTHER -> Raise("TypeError")

----------------------------------------------------------------------------
(* json.loads on a text whose pieces are lexemes.                          *)

StringLexemes ==
    [lex : {"\"week\""},              key : {"week"},              chars : {<<"w">>}] \cup
    [lex : {"\"modules_completed\""}, key : {"modules_completed"}, chars : {<<"m">>}] \cup
    [lex : {"\"total_modules\""},     key : {"total_modules"},     chars : {<<"t">>}] \cup
    [lex : {"\"assessment_pct\""},    key : {"assessment_pct"},    chars : {<<"a">>}] \cup
    [lex : {"\"3\""},                 key : {"3"},                 chars : {<<"3">>}] \cup
    [lex : {"\"x\""},                 key : {"x"},                 chars : {<<"x">>}]

IsStringLexeme(c) == \E e \in StringLexemes : e.lex = c

LexemeOf(c) == CHOOSE e \in StringLexemes : e.lex = c

Fail == [ok |-> FALSE]

RECURSIVE ParseNumber(_, _, _)
\* digits from position i on, n being the value read so far
ParseNumber(s, i, n) ==
    IF i <= Len(s) /\ IsDigit(s[i])
    THEN ParseNumber(s, i + 1, 10 * n + DigitVal(s[i]))
    ELSE [ok |-> TRUE, val |-> PyInt(n), next |-> i]

\* null, a number or a string at position i
ParseScalar(s, i) ==
    IF i > Len(s) THEN Fail
    ELSE IF s[i] = "null" THEN [ok |-> TRUE, val |-> PyNone, next |-> i + 1]
    ELSE IF IsDigit(s[i]) THEN ParseNumber(s, i, 0)
    ELSE IF IsStringLexeme(s[i])
         THEN [ok |-> TRUE, val |-> PyStr(LexemeOf(s[i]).chars), next |-> i + 1]
    ELSE Fail

RECURSIVE ParseMembers(_, _, _)

\* the member k : e read, what follows it decides
MembersAfter(s, k, e, acc) ==
    IF ~e.ok \/ e.next > Len(s) THEN Fail
    ELSE IF s[e.next] = "}"
         THEN [ok |-> TRUE, next |-> e.next + 1,
               val |-> PyDict([x \in DOMAIN acc \cup {k} |-> IF x = k THEN e.val ELSE acc[x]])]
    ELSE IF s[e.next] = ","
         THEN ParseMembers(s, e.next + 1,
                  [x \in DOMAIN acc \cup {k} |-> IF x = k THEN e.val ELSE acc[x]])
    ELSE Fail

\* the members of an object after "{" or ",", acc being those read so far
\* (a repeated key keeps its last value)
ParseMembers(s, i, acc) ==
    IF i + 1 > Len(s) \/ ~IsStringLexeme(s[i]) \/ s[i + 1] # ":" THEN Fail
    ELSE MembersAfter(s, LexemeOf(s[i]).key, ParseScalar(s, i + 2), acc)

\* an object of scalars at position i, or a scalar
ParseElement(s, i) ==
    IF i <= Len(s) /\ s[i] = "{"
    THEN IF i + 1 <= Len(s) /\ s[i + 1] = "}"
         THEN [ok |-> TRUE, val |-> PyDict(<<>>), next |-> i + 2]
         ELSE ParseMembers(s, i + 1, <<>>)
    ELSE ParseScalar(s, i)

RECURSIVE ParseElems(_, _, _)

\* the element e read, what follows it decides
ElemsAfter(s, e, acc) ==
    IF ~e.ok \/ e.next > Len(s) THEN Fail
    ELSE IF s[e.next] = "]"
         THEN [ok |-> TRUE, val |-> PyList(Append(acc, e.val)), next |-> e.next + 1]
    ELSE IF s[e.next] = ","
         THEN ParseElems(s, e.next + 1, Append(acc, e.val))
    ELSE Fail

\* the elements of a list after "[" or ",", acc being those read so far
ParseElems(s, i, acc) == ElemsAfter(s, ParseElement(s, i), acc)

\* a JSON value at position i; the texts of the model nest no deeper than a
\* list of objects of scalars
ParseValue(s, i) ==
    IF i <= Len(s) /\ s[i] = "["
    THEN IF i + 1 <= Len(s) /\ s[i + 1] = "]"
         THEN [ok |-> TRUE, val |-> PyList(<<>>), next |-> i + 2]
         ELSE ParseElems(s, i + 1, <<>>)
    ELSE ParseElement(s, i)

\* the text read to its end, or not
WholeText(text, r) ==
    IF r.ok /\ r.next = Len(text.v) + 1 THEN r.val ELSE Raise("JSONDecodeError")

\* json.loads(text): the value the whole text denotes, or JSONDecodeError
json_loads(text) == WholeText(text, ParseValue(text.v, 1))

----------------------------------------------------------------------------
(* Helpers.                                                                *)

_week_totals == <<5, 5, 5, 5, 5, 5, 4>>

Keys == {"week", "modules_completed", "total_modules", "assessment_pct"}

\* a week record whose four fields are ints
WeekRecord(w, mc, tm, ap) ==
    PyDict([week |-> PyInt(w), modules_completed |-> PyInt(mc),
            total_modules |-> PyInt(tm), assessment_pct |-> PyInt(ap)])

_default_progress ==
    PyList([i \in 1..NumWeeks |-> WeekRecord(i, 0, _week_totals[i], 0)])

NotFound == [t |-> "notfound"]

RECURSIVE FirstWithWeek(_, _, _)

\* the record at index i, whose week coerced to wk: the match, the
\* exception, or the search going on
WeekMatch(progress, i, week_num, wk) ==
    IF IsRaise(wk) THEN wk
    ELSE IF wk.v = week_num THEN progress[i]
    ELSE FirstWithWeek(progress, i + 1, week_num)

\* next((p for p in progress if isinstance(p, dict)
\*       and int(p.get("week", 0)) == week_num), None), scanning from index i:
\* the first match, NotFound, or the exception int() raises on the way.
FirstWithWeek(progress, i, week_num) ==
    IF i > Len(progress) THEN NotFound
    ELSE IF progress[i].t # "dict" THEN FirstWithWeek(progress, i + 1, week_num)
    ELSE WeekMatch(progress, i, week_num, int(Get(progress[i], "week", PyInt(0))))

\* json.loads(progress) or, when it raises, the defaults
DecodedOrDefault(r) == IF IsRaise(r) THEN _default_progress ELSE r

\* if not isinstance(progress, list): progress = _default_progress()
ListOrDefault(decoded) == IF decoded.t # "list" THEN _default_progress ELSE decoded

\* week i's record: the defaults, overlaid with the four fields of found
Overlay(found, i) ==
    IF found.t = "dict"
    THEN PyDict([k \in Keys |-> Get(found, k, WeekRecord(i, 0, _week_totals[i], 0).v[k])])
    ELSE WeekRecord(i, 0, _week_totals[i], 0)

\* the loop over the weeks: the first exception, or the seven records
NormalizedFrom(found) ==
    IF \E i \in 1..NumWeeks : IsRaise(found[i])
    THEN found[CHOOSE i \in 1..NumWeeks :
                IsRaise(found[i]) /\ \A j \in 1..(i - 1) : ~IsRaise(found[j])]
    ELSE PyList([i \in 1..NumWeeks |-> Overlay(found[i], i)])

FoundByWeek(progress) == [i \in 1..NumWeeks |-> FirstWithWeek(progress.v, 1, i)]

_normalize_progress(progress_value) ==
    NormalizedFrom(FoundByWeek(ListOrDefault(
        IF progress_value.t = "str"
        THEN DecodedOrDefault(json_loads(progress_value))
        ELSE progress_value)))

RECURSIVE SumField(_, _, _)
\* sum(int(p.get(key, 0)) for p in progress) over the first n records
SumField(progress, key, n) ==
    IF n = 0 THEN 0
    ELSE SumField(progress, key, n - 1) + int(Get(progress[n], key, PyInt(0))).v

\* num / den (den > 0) to the nearest integer, a tie going to the even one
RoundHalfEven(num, den) ==
    IF 2 * (num % den) > den THEN (num \div den) + 1
    ELSE IF 2 * (num % den) < den THEN num \div den
    ELSE IF (num \div den) % 2 = 0 THEN num \div den
    ELSE (num \div den) + 1

\* int(round((completed / total) * 100)) for total # 0.  The quotient is
\* taken exactly; the double the code computes rounds the same way for the
\* operands this model reaches (at a total of 40 only completed = 1; 23, 49
\* and 51 would differ).
PyRound(completed, total) ==
    IF total < 0
    THEN RoundHalfEven(0 - 100 * completed, 0 - total)
    ELSE RoundHalfEven(100 * completed, total)

OverallOf(completed, total) ==
    [t |-> "overall",
     overall_modules_completed |-> completed,
     overall_modules_total |-> total,
     overall_progress_pct |-> IF total # 0 THEN PyRound(completed, total) ELSE 0]

_overall(progress) ==
    IF \E i \in 1..Len(progress.v), k \in {"total_modules", "modules_completed"} :
            IsRaise(int(Get(progress.v[i], k, PyInt(0))))
    THEN Raise("ValueError")
    ELSE OverallOf(SumField(progress.v, "modules_completed", Len(progress.v)),
                   SumField(progress.v, "total_modules", Len(progress.v)))

\* WeekProgress(**p): the four fields validated as integers
WeekProgress(p) ==
    IF \E k \in Keys : IsRaise(int(p.v[k]))
    THEN Raise("ValidationError")
    ELSE [t |-> "WeekProgress", v |-> [k \in Keys |-> int(p.v[k]).v]]

\* LearnerOut(..., progress=[WeekProgress(**p) for p in normalized], **ov)
OutWithOverall(id, row, normalized, ov) ==
    IF IsRaise(ov) THEN ov
    ELSE IF \E i \in 1..NumWeeks : IsRaise(WeekProgress(normalized.v[i]))
         THEN Raise("ValidationError")
    ELSE [t |-> "LearnerOut",
          id |-> id,
          start_week |-> row.start_week,
          start_date |-> row.start_date,
          progress |-> [i \in 1..NumWeeks |-> WeekProgress(normalized.v[i]).v],
          overall_modules_completed |-> ov.overall_modules_completed,
          overall_modules_total |-> ov.overall_modules_total,
          overall_progress_pct |-> ov.overall_progress_pct]

OutOfNormalized(id, row, normalized) ==
    IF IsRaise(normalized) THEN normalized
    ELSE OutWithOverall(id, row, normalized, _overall(normalized))

_to_out(id, row) == OutOfNormalized(id, row, _normalize_progress(row.progress))

----------------------------------------------------------------------------
(* Request validation (the pydantic schemas).                              *)

IsoDates == {"2025-01-06"}

PyDate(d) == [t |-> "date", v |-> d]

\* None, '' and blanks give None, a date or an ISO date string the date,
\* anything else raises ValueError.
_parse_start_date(v) ==
    CASE v.t = "None" -> PyNone
      [] v.t = "date" -> v
      [] v.t = "str" ->
            LET s == strip(v.v)
            IN  IF s = <<>> THEN PyNone
                ELSE IF Len(s) = 1 /\ s[1] \in IsoDates THEN PyDate(s[1])
                ELSE Raise("ValueError")
      [] OTHER -> Raise("ValueError")

\* LearnerCreate: start_week = Field(ge=1, le=7), start_date validated
LearnerCreateValid(start_week, start_date) ==
    /\ start_week >= MinWeek
    /\ start_week <= NumWeeks
    /\ ~IsRaise(_parse_start_date(start_date))

\* AssessmentWebhook: week = Field(ge=1, le=7), score = Field(ge=0)
AssessmentWebhookValid(week, score) ==
    /\ week >= MinWeek
    /\ week <= NumWeeks
    /\ score >= MinScore

----------------------------------------------------------------------------
(* The inputs the requests are drawn from.                                 *)

StartWeekInputs == {0, 3}

StartDateInputs == {PyStr(<<" ", "2025-01-06">>), PyStr(<<"soon">>)}

CreateEmailInputs == {PyStr(<<>>), PyStr(<<" ", "A">>)}

WebhookEmailInputs == {PyStr(<<"A", " ">>), PyStr(<<"b">>)}

\* the week of a webhook submission: one in range, one past the last week
WeekInputs == {3, 8}

ScoreInputs == {6, 7}

TrackInputs == {"agentic"}

\* (modules_completed, total_modules) of a submitted item
ModuleInputs == {<<10, 5>>, <<40, 5>>, <<1, 11>>, <<1, -29>>}

ClientPctInputs == {50}

\* the WeekProgress items of a ProgressUpdate, as model_dump() gives them
ItemInputs ==
    {WeekRecord(3, m[1], m[2], a) : m \in ModuleInputs, a \in ClientPctInputs}
        \cup {WeekRecord(8, 1, 5, a) : a \in ClientPctInputs}

RECURSIVE SeqsUpTo(_, _)
SeqsUpTo(S, n) ==
    IF n = 0 THEN {<<>>}
    ELSE LET shorter == SeqsUpTo(S, n - 1)
         IN  shorter \cup {Append(q, x) : q \in {r \in shorter : Len(r) = n - 1}, x \in S}

ItemListInputs == SeqsUpTo(ItemInputs, MaxItems)

LearnerIdInputs == 1..(MaxLearners + 1)

----------------------------------------------------------------------------
(* Responses.                                                              *)

Detail(d) == [t |-> "detail", v |-> d]

Response(status, body) == [status |-> status, body |-> body]

\* a LearnerOut body, or the 500 of an exception raised while building it
OutBody(out) ==
    IF IsRaise(out) THEN Response(500, Detail(out.v)) ELSE Response(200, out)

OutResponse(id, row) == OutBody(_to_out(id, row))

Idle == [pc |-> "idle"]

NoneInFlight == [k \in 1..MaxInflight |-> Idle]

Init ==
    /\ learners = <<>>
    /\ assessments = <<>>
    /\ next_id = 1
    /\ response = Response(0, Detail("no request yet"))
    /\ inflight = NoneInFlight

----------------------------------------------------------------------------
(* The handlers, each one request from its query to its last commit.       *)

RECURSIVE SortedIds(_)
\* order_by(Learner.id.asc())
SortedIds(S) ==
    IF S = {} THEN <<>>
    ELSE LET m == CHOOSE x \in S : \A y \in S : x <= y
         IN  <<m>> \o SortedIds(S \ {m})

\* [_to_out(r) for r in rows]
OutsOf(ids) == [i \in 1..Len(ids) |-> _to_out(ids[i], learners[ids[i]])]

ListResponse(outs) ==
    IF \E i \in 1..Len(outs) : IsRaise(outs[i])
    THEN Response(500, Detail("error"))
    ELSE Response(200, [t |-> "list", v |-> outs])

list_learners ==
    /\ response' = ListResponse(OutsOf(SortedIds(DOMAIN learners)))
    /\ UNCHANGED <<learners, assessments, next_id, inflight>>

\* email=(payload.email.strip().lower() if payload.email else None)
stored_email(email) ==
    IF email.t = "None" \/ email.v = <<>> THEN PyNone ELSE PyStr(lower(strip(email.v)))

\* db.add(row); db.commit(); db.refresh(row); return _to_out(row)
StoreRow(id, row) ==
    /\ learners' = [i \in DOMAIN learners \cup {id} |-> IF i = id THEN row ELSE learners[i]]
    /\ response' = OutResponse(id, row)

create_learner(start_week, start_date, email) ==
    /\ next_id <= MaxLearners
    /\ IF ~LearnerCreateValid(start_week, start_date)
       THEN /\ response' = Response(422, Detail("validation"))
            /\ UNCHANGED <<learners, next_id>>
       ELSE /\ StoreRow(next_id, [start_week |-> start_week,
                                  start_date |-> _parse_start_date(start_date),
                                  email |-> stored_email(email),
                                  progress |-> _default_progress])
            /\ next_id' = next_id + 1
    /\ UNCHANGED <<assessments, inflight>>

update_learner(learner_id, start_date) ==
    /\ IF IsRaise(_parse_start_date(start_date))
       THEN /\ response' = Response(422, Detail("validation"))
            /\ UNCHANGED learners
       ELSE IF learner_id \notin DOMAIN learners
       THEN /\ response' = Response(404, Detail("Learner not found"))
            /\ UNCHANGED learners
       ELSE StoreRow(learner_id,
                [learners[learner_id] EXCEPT !.start_date = _parse_start_date(start_date)])
    /\ UNCHANGED <<assessments, next_id, inflight>>

\* assessments.learner_id is a foreign key with no ON DELETE rule and the
\* Assessment rows are not deleted by the handler: an engine that enforces
\* the key rejects the DELETE (the request fails, nothing is deleted), one
\* that does not deletes the learner and leaves its assessments.
delete_learner(learner_id, fk_enforced) ==
    /\ IF learner_id \notin DOMAIN learners
       THEN /\ response' = Response(404, Detail("Learner not found"))
            /\ UNCHANGED learners
       ELSE IF fk_enforced /\ \E i \in 1..Len(assessments) : assessments[i].learner_id = learner_id
       THEN /\ response' = Response(500, Detail("IntegrityError"))
            /\ UNCHANGED learners
       ELSE /\ learners' = [id \in DOMAIN learners \ {learner_id} |-> learners[id]]
            /\ response' = Response(200, [t |-> "status", v |-> "deleted"])
    /\ UNCHANGED <<assessments, next_id, inflight>>

\* {int(p["week"]): int(p.get("assessment_pct", 0)) for p in existing}.get(wk, 0)
existing_assessment(existing, wk) ==
    IF wk \in 1..NumWeeks
    THEN int(Get(existing.v[wk], "assessment_pct", PyInt(0))).v
    ELSE 0

\* the items with assessment_pct forced to what the server already has
sanitized_items(items, existing) ==
    [i \in 1..Len(items) |->
        PyDict([items[i].v EXCEPT
                  !["assessment_pct"] = PyInt(existing_assessment(existing, items[i].v["week"].v))])]

update_progress(learner_id, items) ==
    /\ IF learner_id \notin DOMAIN learners
       THEN /\ response' = Response(404, Detail("Learner not found"))
            /\ UNCHANGED learners
       ELSE StoreRow(learner_id,
                [learners[learner_id] EXCEPT !.progress =
                    PyList(sanitized_items(items,
                        _normalize_progress(learners[learner_id].progress)))])
    /\ UNCHANGED <<assessments, next_id, inflight>>

\* the query without its filter: every row
matching_learners_unfiltered(email) == DOMAIN learners

\* db.query(Learner).filter(Learner.email == email): the rows a first() may give
matching_learners(email) ==
    {id \in DOMAIN learners :
        /\ learners[id].email.t = "str"
        /\ learners[id].email.v = lower(strip(email.v))}

\* the threshold itself failing
passed_strict(score) == score > PASSING_SCORE

passed(score) == score >= PASSING_SCORE

\* the pass not locked: a failing score resets the week
new_assessment_pct_unlocked(is_passed, current_pct) ==
    IF is_passed THEN 100 ELSE 0

new_assessment_pct(is_passed, current_pct) ==
    IF is_passed \/ current_pct >= 100 THEN 100 ELSE 0

\* for p in progress: the first record of the week gets its assessment_pct
\* updated, then break
RecordedFrom(progress, week, score) ==
    PyList([i \in 1..NumWeeks |->
        IF int(Get(progress.v[i], "week", PyInt(0))).v = week
             /\ \A j \in 1..(i - 1) : int(Get(progress.v[j], "week", PyInt(0))).v # week
        THEN PyDict([progress.v[i].v EXCEPT !["assessment_pct"] =
                PyInt(new_assessment_pct(passed(score),
                        int(Get(progress.v[i], "assessment_pct", PyInt(0))).v))])
        ELSE progress.v[i]])

\* the progress document with the week's assessment_pct updated
recorded_progress(progress_value, week, score) ==
    RecordedFrom(_normalize_progress(progress_value), week, score)

\* one row kept per learner and week: a later submission replaces the earlier
insert_assessment_upsert(row) ==
    IF \E i \in 1..Len(assessments) :
            assessments[i].learner_id = row.learner_id /\ assessments[i].week = row.week
    THEN [i \in 1..Len(assessments) |->
            IF assessments[i].learner_id = row.learner_id /\ assessments[i].week = row.week
            THEN row ELSE assessments[i]]
    ELSE Append(assessments, row)

\* db.add(assessment); db.commit()
insert_assessment(row) == Append(assessments, row)

assessment_webhook(email, week, track, score) ==
    /\ IF ~AssessmentWebhookValid(week, score)
       THEN /\ response' = Response(422, Detail("validation"))
            /\ UNCHANGED <<learners, assessments>>
       ELSE IF matching_learners(email) = {}
       THEN /\ response' = Response(404, Detail("Learner not found for email"))
            /\ UNCHANGED <<learners, assessments>>
       ELSE \E id \in matching_learners(email) :
            /\ Len(assessments) < MaxAssessments
            /\ assessments' = insert_assessment(
                    [learner_id |-> id, week |-> week, track |-> track, score |-> score])
            /\ learners' = [learners EXCEPT ![id].progress =
                                recorded_progress(learners[id].progress, week, score)]
            /\ response' = Response(200,
                    [t |-> "saved", assessment_id |-> Len(assessments) + 1,
                     passed |-> passed(score)])
    /\ UNCHANGED <<next_id, inflight>>

Next ==
    \/ list_learners
    \/ \E sw \in StartWeekInputs, sd \in StartDateInputs, e \in CreateEmailInputs :
          create_learner(sw, sd, e)
    \/ \E id \in LearnerIdInputs, sd \in StartDateInputs : update_learner(id, sd)
    \/ \E id \in LearnerIdInputs, fk \in BOOLEAN : delete_learner(id, fk)
    \/ \E id \in LearnerIdInputs, items \in ItemListInputs : update_progress(id, items)
    \/ \E e \in WebhookEmailInputs, w \in WeekInputs, t \in TrackInputs, s \in ScoreInputs :
          assessment_webhook(e, w, t, s)

Spec == Init /\ [][Next]_vars

----------------------------------------------------------------------------
(* What the claims speak of.                                               *)

\* the normalized assessment_pct of a learner's week in a learners table
AssessmentPct(table, id, week) ==
    _normalize_progress(table[id].progress).v[week].v["assessment_pct"].v

\* the learners whose stored email is the submitted one, trimmed and lowercased
EmailOwners(email) ==
    {id \in DOMAIN learners :
        learners[id].email.t = "str" /\ learners[id].email.v = lower(strip(email.v))}

\* a step that is the webhook's, for this submission, recorded for learner id
WebhookStepFor(id, email, week, track, score) ==
    /\ assessment_webhook(email, week, track, score)
    /\ Len(assessments') = Len(assessments) + 1
    /\ assessments'[Len(assessments')].learner_id = id

\* C1: once a week's assessment_pct is 100, a webhook submission for that
\* learner and week with a score below PASSING_SCORE leaves it at 100.
AssessmentLock ==
    [][\A id \in DOMAIN learners, e \in WebhookEmailInputs, w \in WeekInputs,
          t \in TrackInputs, s \in ScoreInputs :
            (/\ s < PASSING_SCORE
             /\ WebhookStepFor(id, e, w, t, s)
             /\ AssessmentPct(learners, id, w) = 100)
            => AssessmentPct(learners', id, w) = 100]_vars

\* a week that passed and then took a failing submission, and is at 100
AssessmentLockWitness ==
    \E id \in DOMAIN learners, i \in 1..Len(assessments), j \in 1..Len(assessments) :
        /\ i < j
        /\ assessments[i].learner_id = id
        /\ assessments[j].learner_id = id
        /\ assessments[i].week = assessments[j].week
        /\ assessments[i].score >= PASSING_SCORE
        /\ assessments[j].score < PASSING_SCORE
        /\ AssessmentPct(learners, id, assessments[j].week) = 100

\* C3: a webhook submission whose email, trimmed and lowercased, is no
\* learner's fails with 404, adds no Assessment row and changes no learner.
UnknownEmailNotFound ==
    [][\A e \in WebhookEmailInputs, w \in WeekInputs, t \in TrackInputs, s \in ScoreInputs :
            (/\ AssessmentWebhookValid(w, s)
             /\ EmailOwners(e) = {}
             /\ assessment_webhook(e, w, t, s))
            => /\ response'.status = 404
               /\ assessments' = assessments
               /\ learners' = learners]_vars

\* the 404 of the webhook, answered while a learner with an email exists
UnknownEmailWitness ==
    /\ response.status = 404
    /\ response.body.v = "Learner not found for email"
    /\ \E id \in DOMAIN learners : learners[id].email.t = "str"

\* C7: for a submission that matches a learner, the response's passed is
\* (score >= PASSING_SCORE), and the week's assessment_pct afterwards is 100
\* if it passed or the week was at 100 already, and 0 otherwise.
WebhookRule ==
    [][\A id \in DOMAIN learners, e \in WebhookEmailInputs, w \in WeekInputs,
          t \in TrackInputs, s \in ScoreInputs :
            WebhookStepFor(id, e, w, t, s)
            => /\ response'.body.t = "saved"
               /\ response'.body.passed = (s >= PASSING_SCORE)
               /\ AssessmentPct(learners', id, w) =
                    IF s >= PASSING_SCORE \/ AssessmentPct(learners, id, w) >= 100
                    THEN 100 ELSE 0]_vars

\* a submission scoring exactly PASSING_SCORE was answered passed, its week at 100
WebhookRuleWitness ==
    /\ response.status = 200
    /\ response.body.t = "saved"
    /\ response.body.passed
    /\ LET a == assessments[response.body.assessment_id]
       IN  /\ a.score = PASSING_SCORE
           /\ a.learner_id \in DOMAIN learners
           /\ AssessmentPct(learners, a.learner_id, a.week) = 100

IsPrefix(s1, s2) ==
    /\ Len(s1) <= Len(s2)
    /\ \A i \in 1..Len(s1) : s1[i] = s2[i]

\* C8: the audit log is append-only: a submission that matches a learner
\* appends exactly one record with its learner, week, track and score,
\* passing or not, and no step changes or removes a record.
AuditAppendOnly ==
    [][/\ IsPrefix(assessments, assessments')
       /\ Len(assessments') <= Len(assessments) + 1
       /\ \A e \in WebhookEmailInputs, w \in WeekInputs, t \in TrackInputs, s \in ScoreInputs :
            (/\ AssessmentWebhookValid(w, s)
             /\ EmailOwners(e) # {}
             /\ assessment_webhook(e, w, t, s))
            => \E id \in EmailOwners(e) :
                  assessments' = Append(assessments,
                      [learner_id |-> id, week |-> w, track |-> t, score |-> s])]_vars

\* two records for one learner and week, the later one failing, kept after
\* that learner was deleted
AuditAppendOnlyWitness ==
    /\ Len(assessments) = 2
    /\ assessments[1].learner_id = assessments[2].learner_id
    /\ assessments[1].week = assessments[2].week
    /\ assessments[2].score < PASSING_SCORE
    /\ assessments[1].learner_id \notin DOMAIN learners

----------------------------------------------------------------------------
(* What every learner's output holds, as list_learners returns it.         *)

LearnerOut(id) == _to_out(id, learners[id])

OverallInRange(out) ==
    /\ out.overall_modules_completed <= out.overall_modules_total
    /\ out.overall_progress_pct >= 0
    /\ out.overall_progress_pct <= 100

WeekInRange(p) ==
    /\ p["total_modules"] >= 0
    /\ p["modules_completed"] >= 0
    /\ p["modules_completed"] <= p["total_modules"]

\* completed * 100 / total to the nearest integer, a tie going up (total > 0)
RoundHalfUp(completed, total) == (200 * completed + total) \div (2 * total)

PctIsHalfUp(out) ==
    /\ out.overall_modules_total > 0
          => out.overall_progress_pct =
               RoundHalfUp(out.overall_modules_completed, out.overall_modules_total)
    /\ out.overall_modules_total = 0 => out.overall_progress_pct = 0

\* C2: update_progress leaves every week's normalized assessment_pct as it
\* was, whatever items are submitted.
UpdatePreservesAssessment ==
    [][\A id \in DOMAIN learners, items \in ItemListInputs :
            update_progress(id, items)
            => \A w \in 1..NumWeeks :
                  AssessmentPct(learners', id, w) = AssessmentPct(learners, id, w)]_vars

\* C4: overall_modules_completed <= overall_modules_total and
\* 0 <= overall_progress_pct <= 100 for every learner's output.
OverallWithinTotal == \A id \in DOMAIN learners : OverallInRange(LearnerOut(id))

\* C6: every week of every learner's output has
\* 0 <= modules_completed <= total_modules.
WeeksClamped ==
    \A id \in DOMAIN learners, w \in 1..NumWeeks : WeekInRange(LearnerOut(id).progress[w])

\* C10: overall_progress_pct is completed * 100 / total rounded half-up when
\* the total is positive, and 0 when the total is 0.
OverallPctHalfUp == \A id \in DOMAIN learners : PctIsHalfUp(LearnerOut(id))

----------------------------------------------------------------------------
(* _normalize_progress on whatever a progress column may hold: SpecNorm    *)
(* starts from one learner row whose progress is any of StoredValues and   *)
(* normalizes it.                                                          *)

WeekFieldValues == {PyInt(3), PyInt(9), PyStr(<<"3">>), PyStr(<<"x">>), PyNone}

\* the fields of a stored record beside its week
OtherFieldValues ==
    {<<>>,
     [k \in {"modules_completed"} |-> PyInt(2)],
     [k \in Keys \ {"week"} |->
        IF k = "modules_completed" THEN PyInt(2)
        ELSE IF k = "total_modules" THEN PyInt(6) ELSE PyInt(100)]}

StoredRecords ==
    {PyDict(rest) : rest \in OtherFieldValues}
        \cup {PyDict([k \in DOMAIN rest \cup {"week"} |-> IF k = "week" THEN w ELSE rest[k]]) :
                w \in WeekFieldValues, rest \in OtherFieldValues}

StoredElements == StoredRecords \cup {PyInt(7), PyNone, PyStr(<<"x">>), PyList(<<>>)}

StoredTexts ==
    {PyStr(<<>>),
     PyStr(<<"null">>),
     PyStr(<<"[", "{">>),
     PyStr(<<"[", "]", "]">>),
     PyStr(<<"{", "\"week\"", ":", "3", "}">>),
     PyStr(<<"[", "{", "\"week\"", ":", "3", ",", "\"assessment_pct\"", ":", "1", "0", "0", "}", "]">>),
     PyStr(<<"[", "7", ",", "{", "\"week\"", ":", "\"3\"", "}", "]">>)}

StoredValues ==
    {PyNone, PyInt(5), PyDict([k \in {"week"} |-> PyInt(3)])}
        \cup StoredTexts
        \cup {PyList(q) : q \in SeqsUpTo(StoredElements, 2)}

InitNorm ==
    /\ \E pv \in StoredValues :
          learners = [id \in {1} |->
                        [start_week |-> 1, start_date |-> PyNone, email |-> PyNone,
                         progress |-> pv]]
    /\ assessments = <<>>
    /\ next_id = 2
    /\ response = Response(0, Detail("no request yet"))
    /\ inflight = NoneInFlight

\* _normalize_progress(row.progress), its result or its exception
normalize_stored ==
    /\ \E id \in DOMAIN learners :
          LET r == _normalize_progress(learners[id].progress)
          IN  response' = Response(IF IsRaise(r) THEN 500 ELSE 200,
                                   [t |-> "_normalize_progress", v |-> r])
    /\ UNCHANGED <<learners, assessments, next_id, inflight>>

NextNorm == normalize_stored \/ list_learners

SpecNorm == InitNorm /\ [][NextNorm]_vars

\* a stored value that is no list and no text that decodes to one
Malformed(pv) == (IF pv.t = "str" THEN json_loads(pv) ELSE pv).t # "list"

\* C5: _normalize_progress never raises and returns 7 records for weeks
\* 1..7 in ascending order for every stored value, and the canonical
\* defaults when the value is malformed or missing.
NormalizeNeverRaises ==
    response.body.t = "_normalize_progress"
    => LET r == response.body.v
       IN  /\ ~IsRaise(r)
           /\ r.t = "list"
           /\ Len(r.v) = NumWeeks
           /\ \A i \in 1..NumWeeks :
                 /\ r.v[i].t = "dict"
                 /\ DOMAIN r.v[i].v = Keys
                 /\ int(r.v[i].v["week"]) = PyInt(i)
           /\ Malformed(learners[1].progress) => r = _default_progress

----------------------------------------------------------------------------
(* assessment_webhook and update_progress, one database round trip per     *)
(* step: the handlers are plain def endpoints, which the server runs on    *)
(* its worker threads, each request with a Session of its own, so another  *)
(* request's commit can fall between any two statements of a handler.      *)
(* SpecConc starts from the database one create_learner leaves.            *)

\* update_progress bodies that carry the week the webhook grades
ConcItemListInputs ==
    {<<WeekRecord(3, m[1], m[2], a)>> : m \in {<<10, 5>>, <<1, 11>>}, a \in ClientPctInputs}

InitConc ==
    /\ learners = [id \in {1} |->
                    [start_week |-> 3,
                     start_date |-> _parse_start_date(PyStr(<<" ", "2025-01-06">>)),
                     email |-> stored_email(PyStr(<<" ", "A">>)),
                     progress |-> _default_progress]]
    /\ assessments = <<>>
    /\ next_id = 2
    /\ response = Response(0, Detail("no request yet"))
    /\ inflight = NoneInFlight

\* flush of an attribute that was assigned: the UPDATE is emitted only when
\* the assigned value differs from the one the Session loaded
flushed(learner_id, loaded, assigned) ==
    IF assigned # loaded
    THEN [learners EXCEPT ![learner_id].progress = assigned]
    ELSE learners

\* the query, the 404, and the Assessment row with its commit
assessment_webhook_insert(k, email, week, track, score) ==
    /\ inflight[k].pc = "idle"
    /\ IF ~AssessmentWebhookValid(week, score)
       THEN /\ response' = Response(422, Detail("validation"))
            /\ UNCHANGED <<assessments, inflight>>
       ELSE IF matching_learners(email) = {}
       THEN /\ response' = Response(404, Detail("Learner not found for email"))
            /\ UNCHANGED <<assessments, inflight>>
       ELSE \E id \in matching_learners(email) :
            /\ Len(assessments) < MaxAssessments
            /\ assessments' = insert_assessment(
                    [learner_id |-> id, week |-> week, track |-> track, score |-> score])
            /\ inflight' = [inflight EXCEPT ![k] =
                    [pc |-> "assessment_webhook_inserted", learner_id |-> id,
                     week |-> week, score |-> score,
                     assessment_id |-> Len(assessments) + 1]]
            /\ UNCHANGED response
    /\ UNCHANGED <<learners, next_id>>

\* learner.progress, expired by the commit, is read again in a new
\* transaction, and the week's record is updated in memory
assessment_webhook_load(k) ==
    /\ inflight[k].pc = "assessment_webhook_inserted"
    /\ inflight' = [inflight EXCEPT ![k] =
            [pc |-> "assessment_webhook_loaded",
             learner_id |-> inflight[k].learner_id,
             score |-> inflight[k].score,
             assessment_id |-> inflight[k].assessment_id,
             loaded |-> learners[inflight[k].learner_id].progress,
             progress |-> recorded_progress(learners[inflight[k].learner_id].progress,
                                            inflight[k].week, inflight[k].score)]]
    /\ UNCHANGED <<learners, assessments, next_id, response>>

\* learner.progress = progress; db.add(learner); db.commit(); return
assessment_webhook_commit(k) ==
    /\ inflight[k].pc = "assessment_webhook_loaded"
    /\ learners' = flushed(inflight[k].learner_id, inflight[k].loaded, inflight[k].progress)
    /\ response' = Response(200,
            [t |-> "saved", assessment_id |-> inflight[k].assessment_id,
             passed |-> passed(inflight[k].score)])
    /\ inflight' = [inflight EXCEPT ![k] = Idle]
    /\ UNCHANGED <<assessments, next_id>>

\* the query, the 404, and sanitized_items built from the row as loaded
update_progress_load(k, learner_id, items) ==
    /\ inflight[k].pc = "idle"
    /\ IF learner_id \notin DOMAIN learners
       THEN /\ response' = Response(404, Detail("Learner not found"))
            /\ UNCHANGED inflight
       ELSE /\ inflight' = [inflight EXCEPT ![k] =
                    [pc |-> "update_progress_loaded",
                     learner_id |-> learner_id,
                     loaded |-> learners[learner_id].progress,
                     sanitized_items |->
                        PyList(sanitized_items(items,
                            _normalize_progress(learners[learner_id].progress)))]]
            /\ UNCHANGED response
    /\ UNCHANGED <<learners, assessments, next_id>>

\* row.progress = sanitized_items; db.add(row); db.commit(); db.refresh(row);
\* return _to_out(row)
update_progress_commit(k) ==
    /\ inflight[k].pc = "update_progress_loaded"
    /\ learners' = flushed(inflight[k].learner_id, inflight[k].loaded,
                           inflight[k].sanitized_items)
    /\ response' = OutResponse(inflight[k].learner_id, learners'[inflight[k].learner_id])
    /\ inflight' = [inflight EXCEPT ![k] = Idle]
    /\ UNCHANGED <<assessments, next_id>>

NextConc ==
    \/ \E k \in 1..MaxInflight, e \in WebhookEmailInputs, w \in WeekInputs,
          t \in TrackInputs, s \in ScoreInputs :
          assessment_webhook_insert(k, e, w, t, s)
    \/ \E k \in 1..MaxInflight : assessment_webhook_load(k)
    \/ \E k \in 1..MaxInflight : assessment_webhook_commit(k)
    \/ \E k \in 1..MaxInflight, id \in LearnerIdInputs, items \in ConcItemListInputs :
          update_progress_load(k, id, items)
    \/ \E k \in 1..MaxInflight : update_progress_commit(k)

SpecConc == InitConc /\ [][NextConc]_vars

\* C9: with no request in flight, every week for which the assessments
\* table holds a passing score of a learner has assessment_pct 100, however
\* the webhook and update_progress requests on that learner interleaved.
PassNeverLost ==
    (\A k \in 1..MaxInflight : inflight[k].pc = "idle")
    => \A i \in 1..Len(assessments) :
          (/\ assessments[i].score >= PASSING_SCORE
           /\ assessments[i].learner_id \in DOMAIN learners)
          => AssessmentPct(learners, assessments[i].learner_id, assessments[i].week) = 100

====
